---------------------------- MODULE Spec2Model ----------------------------
(***************************************************************************)
(* Client-side session / run orchestration of the Nebula Research front    *)
(* end (frontend/src/App.jsx, kept as src/unnamed/part_000).               *)
(*                                                                         *)
(* Texts are sequences of one-character strings, so that trim, titleOf and *)
(* String.prototype.trim are computed and not assumed.  A null reference   *)
(* (currentId, esRef, timerRef, suggestTimerRef) is 0; ids and handles     *)
(* start at 1.  The applied-correction record ac is a sequence of length 0 *)
(* (null) or 1.                                                            *)
(***************************************************************************)
EXTENDS Integers, Sequences, FiniteSets, TLC

\* ---------------------------------------------------------------- bounds
\* Runs (calls of send that pass the empty-query return) in one behaviour.
MaxRuns == 2
\* Events one stream delivers.
MaxEvents == 2
\* Ticks of the elapsed-time interval that are told apart after startTimer.
MaxTicks == 1
\* Autocorrect requests in flight at once.
MaxFetches == 1
\* Text changes of one burst that are remembered (the oldest is forgotten).
MaxBurst == 2
\* Runs in one behaviour of the store.
MaxStoreRuns == 1
\* Spaces in a row inside a text that a title is derived from.
MaxGap == 1
\* Steps of a plan shown by the loader.
MaxSteps == 4

\* ------------------------------------------------------ program constants
\* titleOf keeps the first 64 characters (part_000 line 14).
TitleMax == 64
\* the textarea asks for a suggestion from 3 trimmed characters on (line 326).
MinSuggestLen == 3

\* ------------------------------------------------------------------ texts
Untitled == <<"U", "n", "t", "i", "t", "l", "e", "d">>

IsSpace(c) == c = " "

\* s.replace(/\s+/g, " "): every run of whitespace becomes one space.
\* (of a run of whitespace the first character is kept, as a space)
collapse(s) ==
  LET marked == [i \in 1..Len(s) |->
                   [c |-> IF IsSpace(s[i]) THEN " " ELSE s[i],
                    kept |-> ~IsSpace(s[i]) \/ i = 1 \/ ~IsSpace(s[i - 1])]]
      kept == SelectSeq(marked, LAMBDA m : m.kept)
  IN  [i \in 1..Len(kept) |-> kept[i].c]

RECURSIVE stripLeft(_)
stripLeft(s) ==
  IF s # <<>> /\ IsSpace(Head(s)) THEN stripLeft(Tail(s)) ELSE s

RECURSIVE stripRight(_)
stripRight(s) ==
  IF s # <<>> /\ IsSpace(s[Len(s)]) THEN stripRight(SubSeq(s, 1, Len(s) - 1)) ELSE s

\* String.prototype.trim: leading and trailing whitespace removed, inner kept.
jsTrim(s) == stripRight(stripLeft(s))

\* const trim = (s) => (s || "").replace(/\s+/g, " ").trim();
trim(s) == jsTrim(collapse(s))

\* const titleOf = (s) => (trim(s).slice(0, 64) || "Untitled");
titleOf(s) ==
  LET t == trim(s)
      c == SubSeq(t, 1, IF Len(t) < TitleMax THEN Len(t) ELSE TitleMax)
  IN  IF c = <<>> THEN Untitled ELSE c

\* What reading a property that an object does not have gives.
Undefined == <<"undefined">>

\* obj.key
prop(r, k) == IF k \in DOMAIN r THEN r[k] ELSE Undefined

\* ----------------------------------------------------------------- inputs
\* Values the textarea can take by typing or pasting.
Typed ==
  { <<>>,
    <<"a", "b">>,
    <<"a", "b", "c">>,
    <<"a", "b", "c", "d">>,
    <<" ", "a", "b", "d", " ">> }

Rep(c, n) == [i \in 1..n |-> c]

\* Texts a title is derived from: a word as long as the title limit or one
\* short of it (or none), spaces, a letter (or none), the whole between two
\* spaces or not.
TitleTexts ==
  { Rep(" ", a) \o Rep("x", n) \o Rep(" ", g) \o Rep("y", m) \o Rep(" ", a) :
      a \in 0..1, n \in {0, TitleMax - 1, TitleMax}, g \in 0..MaxGap, m \in 0..1 }

\* The query typed in the behaviours that follow runs and sessions.
Queries == { <<"a", "b", "c">> }

\* Bodies the autocorrect endpoint answers with (j.suggestion).
ServerSuggestions ==
  { <<>>,
    <<"a", "b", "c">>,
    <<"a", "b", "d", " ">> }

\* Payloads of the stream's named events.
PlanPayloads == { [intent |-> "i", steps |-> <<"s1", "s2">>] }
ProgressPayloads == { [pct |-> 40] }
StatusPayloads == { [state |-> "Searching"] }
TraceKinds == { "queries", "search", "read", "extract", "rationale" }
\* The five listeners differ in the type they record and in nothing else, so
\* streams are drawn from two of the kinds: enough to tell a repeated kind
\* from two different ones.
SentKinds == { "queries", "read" }
TracePayload(kind) == [of |-> kind]
FinalPayloads == { [answer |-> <<"X">>, citations |-> <<"https://a">>] }

\* Plans and percentages sent to the loader: plans of one step and more,
\* percentages below, at and around the step thresholds, and out of range.
LoaderPlans == { [intent |-> "i", steps |-> Rep("s", n)] : n \in 1..MaxSteps }
LoaderPcts == { [pct |-> p] : p \in {0 - 5, 0, 24, 60, 99, 150} }

\* Event names with a JSON payload.
EventKinds == { "plan", "progress", "status", "final" } \cup TraceKinds

\* Payloads that are not of the event's shape: a text that is not JSON, the
\* JSON value null, and the JSON object {} that has none of the properties.
Malformed == { "unparseable", "null", "object" }
NullData == [json |-> "null"]
ObjectData == [json |-> "{}"]
dataOf(m) == IF m = "null" THEN NullData ELSE ObjectData

\* a final payload that carries no citations: d.citations is undefined
FinalsStored == FinalPayloads \cup { [answer |-> <<"Y">>, citations |-> Undefined] }

\* Texts given to renameSession.
Names == { <<>>, <<" ", "n", " ", " ", "m", " ">> }

Modes == { "fast", "thorough" }

EmptyPlan == [intent |-> "null", steps |-> <<>>]
StopEntry == [type |-> "status", data |-> [state |-> "Stopped by user"]]
ErrorEntry == [type |-> "error", data |-> [message |-> "Network/server error"]]

\* ------------------------------------------------------------- persistence
\* The value JSON.stringify writes and JSON.parse reads back, as a tree.
JNull == [t |-> "null", v |-> <<>>]
JNumber == [t |-> "number", v |-> <<>>]
JUndefined == [t |-> "undefined", v |-> <<>>]
JString(s) == [t |-> "string", v |-> s]
JArray(ns) == [t |-> "array", v |-> ns]
\* a payload a listener got from JSON.parse: it is written as it was read
JPayload(d) == [t |-> "payload", v |-> <<d>>]
member(k, n) == [k |-> k, n |-> n]
\* JSON.stringify leaves out the properties whose value is undefined
JObject(ms) == [t |-> "object", v |-> SelectSeq(ms, LAMBDA m : m.n.t # "undefined")]

jsonOfText(s) == IF s = Undefined THEN JUndefined ELSE JString(s)

jsonOfMessage(m) ==
  JObject(<<member("id", JString(<<m.id>>)),
            member("role", JString(<<m.role>>)),
            member("content", jsonOfText(prop(m, "content"))),
            member("citations", jsonOfText(prop(m, "citations")))>>)

jsonOfEntry(e) ==
  JObject(<<member("type", JString(<<e.type>>)), member("data", JPayload(e.data))>>)

jsonOfSession(x) ==
  JObject(<<member("id", JString(<<x.id>>)),
            member("title", JString(x.title)),
            member("mode", JString(<<x.mode>>)),
            member("messages", JArray([i \in 1..Len(x.messages) |-> jsonOfMessage(x.messages[i])])),
            member("trace", JArray([i \in 1..Len(x.trace) |-> jsonOfEntry(x.trace[i])]))>>)

\* JSON.stringify(s) of a session list
stringify(ss) == JArray([i \in 1..Len(ss) |-> jsonOfSession(ss[i])])

has(o, k) == \E i \in 1..Len(o.v) : o.v[i].k = k
get(o, k) == o.v[CHOOSE i \in 1..Len(o.v) : o.v[i].k = k].n

messageOf(o) ==
  LET base == [id |-> get(o, "id").v[1], role |-> get(o, "role").v[1]]
      withContent == IF has(o, "content")
                       THEN [id |-> base.id, role |-> base.role,
                             content |-> get(o, "content").v]
                       ELSE base
  IN  IF has(o, "citations")
        THEN IF has(o, "content")
               THEN [id |-> base.id, role |-> base.role,
                     content |-> get(o, "content").v,
                     citations |-> get(o, "citations").v]
               ELSE [id |-> base.id, role |-> base.role,
                     citations |-> get(o, "citations").v]
        ELSE withContent

entryOf(o) == [type |-> get(o, "type").v[1], data |-> get(o, "data").v[1]]

sessionOf(o) ==
  [id |-> get(o, "id").v[1],
   title |-> get(o, "title").v,
   mode |-> get(o, "mode").v[1],
   messages |-> [i \in 1..Len(get(o, "messages").v) |-> messageOf(get(o, "messages").v[i])],
   trace |-> [i \in 1..Len(get(o, "trace").v) |-> entryOf(get(o, "trace").v[i])]]

\* The record under STORAGE_KEY: none, a text JSON.parse rejects, or the text
\* of a JSON value.
Absent == [kind |-> "absent", json |-> JNull]
Corrupt == [kind |-> "corrupt", json |-> JNull]
Stored(n) == [kind |-> "json", json |-> n]

\* JSON.parse(localStorage.getItem(STORAGE_KEY)||"[]") inside try, [] in catch:
\* the tree of the value that loadSessions returns
loadSessions(rec) ==
  IF rec.kind = "json" THEN rec.json ELSE JArray(<<>>)

\* the session list a loaded array stands for
listOf(n) == [i \in 1..Len(n.v) |-> sessionOf(n.v[i])]

\* saveSessions that writes nothing
saveSessionsSkipped(ss, full, old) == old

\* try{ localStorage.setItem(STORAGE_KEY, JSON.stringify(s)); }catch{}
\* setItem throws when the quota is exceeded: what is stored stays
saveSessions(ss, full, old) == IF full THEN old ELSE Stored(stringify(ss))

\* A session an earlier process lifetime left in the store.
OldSession ==
  [id |-> 101, title |-> <<"o", "l", "d">>, mode |-> "fast",
   messages |-> << [id |-> 102, role |-> "user", content |-> <<"o", "l", "d">>],
                   [id |-> 103, role |-> "assistant", content |-> <<"A">>,
                    citations |-> <<"https://b">>] >>,
   trace |-> << [type |-> "status", data |-> [state |-> "Searching"]] >>]

\* What the store can hold when the application is opened.
StoredRecords ==
  { Absent, Corrupt, Stored(JNull), Stored(JNumber), Stored(JObject(<<>>)),
    Stored(stringify(<<>>)), Stored(stringify(<<OldSession>>)) }

\* ------------------------------------------------------------------ state
VARIABLES
  sessions,        \* useState(loadSessions()): the list of sessions
  currentId,       \* id of the selected session, 0 for none
  question,        \* composer text
  status,          \* idle | thinking | done | error | stopped
  elapsed,         \* seconds shown, in ticks
  plan,            \* {intent, steps} of the run
  progress,        \* last pct received
  statusLine,      \* last status text
  autoCorrectOn,
  suggestion,      \* shown suggestion, <<>> for none
  suggestLoading,
  ac,              \* applied correction: <<>> or <<[original, corrected]>>
  suggestTimerRef, \* handle of the last debounce timeout set, 0 for none
  timeouts,        \* pending debounce timeouts: set of [h, text]
  fetches,         \* autocorrect requests in flight: sequence of texts
  esRef,           \* index in streams of esRef.current, 0 for null
  runIdRef,        \* session id stamped by the last send, 0 for null
  timerRef,        \* handle of the last interval set, 0 for none
  streams,         \* every EventSource opened: [id, open, sent]
  intervals,       \* handles of the intervals still running
  sinceT0,         \* ticks since t0Ref was set by startTimer
  resets,          \* pending setTimeout(()=>setProgress(0), 800)
  uidCounter,      \* let uidCounter = 0
  mode,            \* fast | thorough
  stored,          \* the record under STORAGE_KEY in localStorage
  storageFull,     \* localStorage.setItem throws (quota exceeded)
  phase,           \* unmounted | running | crashed (render threw)
  \* history, read by no action
  cut,             \* streams that send closed while their run was thinking
  burst,           \* texts of the changes that asked for a suggestion since
                   \* the last request was issued, <<>> once one did not ask
  suggestedFor,    \* the request text the shown suggestion answers
  submitted        \* the composer text is as the last send left it

runVars == <<status, elapsed, plan, progress, statusLine>>
acVars == <<autoCorrectOn, suggestion, suggestLoading, ac, suggestTimerRef,
            timeouts, fetches>>
refVars == <<esRef, runIdRef, timerRef, streams, intervals, sinceT0, resets>>
histVars == <<cut, burst, suggestedFor, submitted>>
storeVars == <<mode, stored, storageFull, phase>>
vars == <<sessions, currentId, question, runVars, acVars, refVars, uidCounter,
          histVars, storeVars>>

\* a handler that does not call setSessions: the effect of line 108 does not run
Quiet == UNCHANGED storeVars

\* useEffect(()=>saveSessions(sessions),[sessions]) after setSessions was called
Saves ==
  /\ stored' = saveSessions(sessions', storageFull, stored)
  /\ UNCHANGED <<mode, storageFull, phase>>

Init ==
  /\ sessions = <<>>
  /\ currentId = 0
  /\ question = <<>>
  /\ status = "idle"
  /\ elapsed = 0
  /\ plan = EmptyPlan
  /\ progress = 0
  /\ statusLine = ""
  /\ autoCorrectOn = TRUE
  /\ suggestion = <<>>
  /\ suggestLoading = FALSE
  /\ ac = <<>>
  /\ suggestTimerRef = 0
  /\ timeouts = {}
  /\ fetches = <<>>
  /\ esRef = 0
  /\ runIdRef = 0
  /\ timerRef = 0
  /\ streams = <<>>
  /\ intervals = {}
  /\ sinceT0 = 0
  /\ resets = 0
  /\ uidCounter = 0
  /\ mode = "thorough"
  /\ stored = Stored(stringify(<<>>))
  /\ storageFull = FALSE
  /\ phase = "running"
  /\ cut = {}
  /\ burst = <<>>
  /\ suggestedFor = <<>>
  /\ submitted = FALSE


\* ------------------------------------------------------------ session list
\* uid without its counter, `m_${Date.now()}`, within one millisecond
uidOfClock(c) == 1

\* let uidCounter = 0; const uid = () => `m_${Date.now()}_${uidCounter++}`;
\* the id made from counter value c (0 is kept for "no id").  The id is its
\* counter part: the clock part is taken to be the same in every id, as for
\* ids made within one millisecond.
uid(c) == c + 1

Ids(ss) == { ss[i].id : i \in 1..Len(ss) }

\* const current = useMemo(()=> sessions.find(s=>s.id===currentId) || null)
HasCurrent == currentId \in Ids(sessions)

SessionOf(ss, id) == ss[CHOOSE i \in 1..Len(ss) : ss[i].id = id]

\* appendTrace putting the entry at the head: trace:[ev,...(s.trace||[])]
appendTraceAtHead(ss, id, ev) ==
  [i \in 1..Len(ss) |->
     IF ss[i].id = id THEN [ss[i] EXCEPT !.trace = <<ev>> \o @] ELSE ss[i]]

\* setSessions(prev=>prev.map(s=>s.id===id?{...s,trace:[...(s.trace||[]),ev]}:s))
appendTrace(ss, id, ev) ==
  [i \in 1..Len(ss) |->
     IF ss[i].id = id THEN [ss[i] EXCEPT !.trace = Append(@, ev)] ELSE ss[i]]

\* the map of line 195 without ...s.messages: the answer is the only message
appendMessageAlone(ss, id, msg) ==
  [i \in 1..Len(ss) |->
     IF ss[i].id = id THEN [ss[i] EXCEPT !.messages = <<msg>>] ELSE ss[i]]

\* prev.map(s=> s.id===id ? {...s, messages:[...s.messages, msg]} : s)
appendMessage(ss, id, msg) ==
  [i \in 1..Len(ss) |->
     IF ss[i].id = id THEN [ss[i] EXCEPT !.messages = Append(@, msg)] ELSE ss[i]]

\* the map of line 177 without its trace:[] : the trace of the turn before stays
beginTurnKeepsTrace(ss, id, q, mid) ==
  [i \in 1..Len(ss) |->
     IF ss[i].id = id
       THEN [ss[i] EXCEPT
               !.title = IF Len(ss[i].messages) > 0 THEN @ ELSE titleOf(q),
               !.messages = Append(@, [id |-> mid, role |-> "user", content |-> q])]
       ELSE ss[i]]

\* the map of line 177: title from the first query, user message, empty trace
beginTurn(ss, id, q, mid) ==
  [i \in 1..Len(ss) |->
     IF ss[i].id = id
       THEN [ss[i] EXCEPT
               !.title = IF Len(ss[i].messages) > 0 THEN @ ELSE titleOf(q),
               !.messages = Append(@, [id |-> mid, role |-> "user", content |-> q]),
               !.trace = <<>>]
       ELSE ss[i]]

NewSession(id, prompt) ==
  [id |-> id, title |-> titleOf(IF prompt = <<>> THEN <<"N","e","w"," ","c","h","a","t">> ELSE prompt),
   mode |-> mode, messages |-> <<>>, trace |-> <<>>]

\* ----------------------------------------------------- timers and streams
\* clearInterval(timerRef.current) when it is set
stopTimer(iv, tref) == iv \ {tref}

\* the handle setInterval returns: one no interval left running has
FreshInterval(iv, tref) ==
  CHOOSE h \in 1..(Cardinality(iv) + 1) :
    h \notin stopTimer(iv, tref) /\ \A g \in 1..(h - 1) : g \in stopTimer(iv, tref)

\* startTimer without line 113: the interval set before keeps running
startTimerKeepsOld(iv, tref) == iv \cup {Cardinality(iv) + 1}

\* startTimer: the previous interval is cleared, a new one is set
startTimer(iv, tref) == stopTimer(iv, tref) \cup {FreshInterval(iv, tref)}

\* es.close()
closeStream(ss, k) == IF k = 0 THEN ss ELSE [ss EXCEPT ![k].open = FALSE]

\* send without line 180: the previous EventSource is left open
closePreviousSkipped(ss, ref) == ss

\* if (esRef.current){ esRef.current.close(); esRef.current=null; }  (line 180)
closePrevious(ss, ref) == closeStream(ss, ref)

\* An EventSource dispatches an event only while it is not closed.
Deliverable(k) ==
  /\ k \in 1..Len(streams)
  /\ streams[k].open
  /\ streams[k].sent < MaxEvents

delivered(ss, k) == [ss EXCEPT ![k].sent = @ + 1]

\* -------------------------------------------------------------------- send
\* line 167 without its autoCorrectOn test
appliesWhenOff(raw) == suggestion # <<>> /\ suggestion # raw

\* lines 165-172: the effective query and the applied-correction record
applies(raw) == autoCorrectOn /\ suggestion # <<>> /\ suggestion # raw

effectiveQuery(raw) == IF applies(raw) THEN suggestion ELSE raw

appliedCorrection(raw) ==
  IF applies(raw) THEN <<[original |-> raw, corrected |-> suggestion]>> ELSE <<>>

Send ==
  LET raw == trim(question)
  IN  IF raw = <<>>
        THEN UNCHANGED vars
        ELSE
          LET q == effectiveQuery(raw)
              \* ensureSession(q)
              id == IF HasCurrent THEN currentId ELSE uid(uidCounter)
              c1 == IF HasCurrent THEN uidCounter ELSE uidCounter + 1
              s1 == IF HasCurrent THEN sessions ELSE <<NewSession(id, q)>> \o sessions
          IN  /\ Len(streams) < MaxRuns
              /\ ac' = appliedCorrection(raw)
              /\ suggestion' = <<>>
              /\ currentId' = id
              /\ runIdRef' = id
              /\ sessions' = beginTurn(s1, id, q, uid(c1))
              /\ uidCounter' = c1 + 1
              /\ question' = <<>>
              /\ status' = "thinking"
              /\ elapsed' = 0
              /\ plan' = EmptyPlan
              /\ progress' = 0
              /\ statusLine' = ""
              \* startTimer()
              /\ sinceT0' = 0
              /\ intervals' = startTimer(intervals, timerRef)
              /\ timerRef' = FreshInterval(intervals, timerRef)
              \* the previous stream is closed, the new one opened
              /\ streams' = Append(closePrevious(streams, esRef),
                                   [id |-> id, open |-> TRUE, sent |-> 0])
              /\ esRef' = Len(streams) + 1
              /\ cut' = IF status = "thinking" /\ esRef # 0 /\ streams[esRef].open
                           THEN cut \cup {esRef} ELSE cut
              /\ suggestedFor' = <<>>
              /\ submitted' = TRUE
              /\ UNCHANGED <<autoCorrectOn, suggestLoading, suggestTimerRef,
                             timeouts, fetches, resets, burst>>
              /\ Saves

\* ------------------------------------------------------- stream listeners
\* es.addEventListener("plan", ...)
PlanEvent(k, d) ==
  /\ Deliverable(k)
  /\ plan' = [intent |-> d.intent, steps |-> d.steps]
  /\ sessions' = appendTrace(sessions, streams[k].id, [type |-> "plan", data |-> d])
  /\ streams' = delivered(streams, k)
  /\ UNCHANGED <<currentId, question, status, elapsed, progress, statusLine,
                 acVars, esRef, runIdRef, timerRef, intervals, sinceT0, resets,
                 uidCounter, histVars>>
  /\ Saves

\* es.addEventListener("progress", ...)
ProgressEvent(k, d) ==
  /\ Deliverable(k)
  /\ progress' = d.pct
  /\ streams' = delivered(streams, k)
  /\ UNCHANGED <<sessions, currentId, question, status, elapsed, plan, statusLine,
                 acVars, esRef, runIdRef, timerRef, intervals, sinceT0, resets,
                 uidCounter, histVars>>
  /\ Quiet

\* es.addEventListener("status", ...)
StatusEvent(k, d) ==
  /\ Deliverable(k)
  /\ statusLine' = d.state
  /\ sessions' = appendTrace(sessions, streams[k].id, [type |-> "status", data |-> d])
  /\ streams' = delivered(streams, k)
  /\ UNCHANGED <<currentId, question, status, elapsed, plan, progress,
                 acVars, esRef, runIdRef, timerRef, intervals, sinceT0, resets,
                 uidCounter, histVars>>
  /\ Saves

\* the queries, search, read, extract and rationale listeners
TraceEvent(k, kind) ==
  /\ Deliverable(k)
  /\ sessions' = appendTrace(sessions, streams[k].id,
                             [type |-> kind, data |-> TracePayload(kind)])
  /\ streams' = delivered(streams, k)
  /\ UNCHANGED <<currentId, question, runVars, acVars, esRef, runIdRef, timerRef,
                 intervals, sinceT0, resets, uidCounter, histVars>>
  /\ Saves

\* es.addEventListener("final", ...)
FinalEvent(k, d) ==
  /\ Deliverable(k)
  /\ sessions' = appendMessage(sessions, streams[k].id,
                   [id |-> uid(uidCounter), role |-> "assistant",
                    content |-> d.answer, citations |-> d.citations])
  /\ uidCounter' = IF streams[k].id \in Ids(sessions) THEN uidCounter + 1 ELSE uidCounter
  /\ progress' = 100
  /\ status' = "done"
  /\ intervals' = stopTimer(intervals, timerRef)
  /\ streams' = closeStream(delivered(streams, k), k)
  /\ resets' = resets + 1
  /\ UNCHANGED <<currentId, question, elapsed, plan, statusLine, acVars, esRef,
                 runIdRef, timerRef, sinceT0, histVars>>
  /\ Saves

\* es.addEventListener("error", ...)
ErrorEvent(k) ==
  /\ Deliverable(k)
  /\ sessions' = appendTrace(sessions, streams[k].id, ErrorEntry)
  /\ status' = "error"
  /\ intervals' = stopTimer(intervals, timerRef)
  /\ streams' = closeStream(delivered(streams, k), k)
  /\ UNCHANGED <<currentId, question, elapsed, plan, progress, statusLine, acVars,
                 esRef, runIdRef, timerRef, sinceT0, resets, uidCounter, histVars>>
  /\ Saves

\* setTimeout(()=> setProgress(0), 800) of the final listener
ProgressReset ==
  /\ resets > 0
  /\ progress' = 0
  /\ resets' = resets - 1
  /\ UNCHANGED <<sessions, currentId, question, status, elapsed, plan, statusLine,
                 acVars, esRef, runIdRef, timerRef, streams, intervals, sinceT0,
                 uidCounter, histVars>>
  /\ Quiet

\* setInterval(()=> setElapsed((performance.now()-t0Ref.current)/1000), 100)
Tick ==
  /\ intervals # {}
  /\ sinceT0 < MaxTicks
  /\ sinceT0' = sinceT0 + 1
  /\ elapsed' = sinceT0 + 1
  /\ UNCHANGED <<sessions, currentId, question, status, plan, progress, statusLine,
                 acVars, esRef, runIdRef, timerRef, streams, intervals, resets,
                 uidCounter, histVars>>
  /\ Quiet

\* ------------------------------------------------------------------ loader
\* Math.max(0,Math.min(100,progress||0)) of ClaudeLoader (line 36)
clamp(p) == IF p < 0 THEN 0 ELSE IF p > 100 THEN 100 ELSE p

\* the percentage the loader shows
displayedPct == clamp(progress)

\* the value the step-completion computation reads: (progress || 0), line 42
stepProgress == progress

\* lines 41-42 without the "- 1"
stepDoneExact(i, n, p) == p * n >= (i + 1) * 100

\* const stepPct = ((i + 1) / plan.steps.length) * 100;
\* const done = (progress || 0) >= stepPct - 1;      (both sides times n)
stepDone(i, n, p) == p * n >= (i + 1) * 100 - n

\* the steps the loader marks done
stepsDone ==
  { i \in 0..(Len(plan.steps) - 1) : stepDone(i, Len(plan.steps), stepProgress) }

\* ------------------------------------------------------ malformed payloads
\* The listener throws before its first state update (JSON.parse of a text
\* that is not JSON, a property read of null), or finds nothing to apply:
\* the event is consumed and nothing else changes.
Throws(k) ==
  /\ Deliverable(k)
  /\ streams' = delivered(streams, k)
  /\ UNCHANGED <<sessions, currentId, question, runVars, acVars, esRef, runIdRef,
                 timerRef, intervals, sinceT0, resets, uidCounter, histVars>>
  /\ Quiet

\* plan listener: d.intent of null throws; {} gives intent undefined, steps []
MalformedPlan(k, m) ==
  IF m = "object"
    THEN /\ Deliverable(k)
         /\ plan' = [intent |-> "undefined", steps |-> <<>>]
         /\ sessions' = appendTrace(sessions, streams[k].id,
                                    [type |-> "plan", data |-> ObjectData])
         /\ streams' = delivered(streams, k)
         /\ UNCHANGED <<currentId, question, status, elapsed, progress, statusLine,
                        acVars, esRef, runIdRef, timerRef, intervals, sinceT0, resets,
                        uidCounter, histVars>>
         /\ Saves
    ELSE Throws(k)

\* progress listener: d.pct of null throws; typeof undefined is not "number"
MalformedProgress(k, m) == Throws(k)

\* status listener: d?.state||"" is "" for null and for {}
MalformedStatus(k, m) ==
  IF m = "unparseable"
    THEN Throws(k)
    ELSE /\ Deliverable(k)
         /\ statusLine' = ""
         /\ sessions' = appendTrace(sessions, streams[k].id,
                                    [type |-> "status", data |-> dataOf(m)])
         /\ streams' = delivered(streams, k)
         /\ UNCHANGED <<currentId, question, status, elapsed, plan, progress,
                        acVars, esRef, runIdRef, timerRef, intervals, sinceT0, resets,
                        uidCounter, histVars>>
         /\ Saves

\* queries, search, read, extract, rationale: whatever parses is recorded
MalformedTrace(k, kind, m) ==
  IF m = "unparseable"
    THEN Throws(k)
    ELSE /\ Deliverable(k)
         /\ sessions' = appendTrace(sessions, streams[k].id,
                                    [type |-> kind, data |-> dataOf(m)])
         /\ streams' = delivered(streams, k)
         /\ UNCHANGED <<currentId, question, runVars, acVars, esRef, runIdRef,
                        timerRef, intervals, sinceT0, resets, uidCounter, histVars>>
         /\ Saves

\* final listener.  {}: d.answer and d.citations are undefined and the
\* listener goes on as for any final.  null: the updater given to setSessions
\* throws on d.answer when React runs it in the next render, after the
\* listener has finished; no error boundary catches it, the application is
\* unmounted and the cleanup of line 205 runs.
MalformedFinal(k, m) ==
  CASE m = "unparseable" -> Throws(k)
    [] m = "object" ->
         FinalEvent(k, [answer |-> Undefined, citations |-> Undefined])
    [] m = "null" ->
         /\ Deliverable(k)
         /\ phase' = "crashed"
         /\ progress' = 100
         /\ status' = "done"
         /\ intervals' = stopTimer(intervals, timerRef)
         /\ streams' = closeStream(delivered(streams, k), k)
         /\ resets' = resets + 1
         /\ UNCHANGED <<sessions, currentId, question, elapsed, plan, statusLine,
                        acVars, esRef, runIdRef, timerRef, sinceT0, uidCounter,
                        histVars, mode, stored, storageFull>>

\* the listener of an event of this kind gets a malformed payload
MalformedEvent(k, kind, m) ==
  CASE kind = "plan" -> MalformedPlan(k, m)
    [] kind = "progress" -> MalformedProgress(k, m)
    [] kind = "status" -> MalformedStatus(k, m)
    [] kind = "final" -> MalformedFinal(k, m)
    [] OTHER -> MalformedTrace(k, kind, m)

\* -------------------------------------------------------------------- stop
\* function stopRun()
stopRun ==
  /\ streams' = closeStream(streams, esRef)
  /\ esRef' = 0
  /\ intervals' = stopTimer(intervals, timerRef)
  /\ status' = "stopped"
  /\ sessions' = IF runIdRef # 0 THEN appendTrace(sessions, runIdRef, StopEntry)
                                 ELSE sessions
  /\ UNCHANGED <<currentId, question, elapsed, plan, progress, statusLine, acVars,
                 runIdRef, timerRef, sinceT0, resets, uidCounter, histVars>>
  /\ IF runIdRef # 0 THEN Saves ELSE Quiet

\* the Stop button is rendered while status is thinking (lines 334-338)
StopClick == status = "thinking" /\ stopRun

\* onKey without its status test
EscapeKeyUnguarded == stopRun

\* const onKey = (e) => { if (e.key === "Escape" && status === "thinking") stopRun(); }
EscapeKey == IF status = "thinking" THEN stopRun ELSE UNCHANGED vars

\* ---------------------------------------------------------------- sessions
\* const newChat = ...; the History "New" button does the same (line 269)
NewChat ==
  /\ currentId' = 0
  /\ status' = "idle"
  /\ elapsed' = 0
  /\ question' = <<>>
  /\ submitted' = (submitted /\ question' = question)
  /\ UNCHANGED <<sessions, plan, progress, statusLine, acVars, refVars, uidCounter,
                 cut, burst, suggestedFor>>
  /\ Quiet

\* onClick={()=>setCurrentId(s.id)} of a History entry
SelectSession(i) ==
  /\ i \in 1..Len(sessions)
  /\ currentId' = sessions[i].id
  /\ UNCHANGED <<sessions, question, runVars, acVars, refVars, uidCounter, histVars>>
  /\ Quiet

\* deleteSession setting the selection to null whatever is left
otherThanDropped(ss, id) == 0

\* sessions.find(s=>s.id!==id)?.id || null
otherThan(ss, id) ==
  IF \E i \in 1..Len(ss) : ss[i].id # id
    THEN ss[CHOOSE i \in 1..Len(ss) :
              ss[i].id # id /\ \A j \in 1..(i - 1) : ss[j].id = id].id
    ELSE 0

\* prev.filter(s=>s.id!==id)
without(ss, id) == SelectSeq(ss, LAMBDA s : s.id # id)

\* const deleteSession=(id)=>{ ... }
DeleteSession(i) ==
  /\ i \in 1..Len(sessions)
  /\ sessions' = without(sessions, sessions[i].id)
  /\ currentId' = IF currentId = sessions[i].id
                    THEN otherThan(sessions, sessions[i].id) ELSE currentId
  /\ UNCHANGED <<question, runVars, acVars, refVars, uidCounter, histVars>>
  /\ Saves

\* ------------------------------------------------------------- autocorrect
\* requestAutocorrect without line 146: the pending timeout is not cleared
clearSuggestTimerSkipped(ts, ref) == ts

\* if (suggestTimerRef.current) clearTimeout(suggestTimerRef.current);
clearSuggestTimer(ts, ref) == { t \in ts : t.h # ref }

\* the handle setTimeout returns: one no timeout left pending has
FreshTimeout(ts, ref) ==
  CHOOSE h \in 1..(Cardinality(ts) + 1) :
    /\ \A t \in clearSuggestTimer(ts, ref) : t.h # h
    /\ \A g \in 1..(h - 1) : \E t \in clearSuggestTimer(ts, ref) : t.h = g

\* function requestAutocorrect(text), up to the setTimeout call
requestAutocorrect(text) ==
  IF ~autoCorrectOn
    THEN /\ suggestion' = <<>>
         /\ UNCHANGED <<suggestTimerRef, timeouts>>
    ELSE /\ timeouts' = clearSuggestTimer(timeouts, suggestTimerRef)
                          \cup {[h |-> FreshTimeout(timeouts, suggestTimerRef), text |-> text]}
         /\ suggestTimerRef' = FreshTimeout(timeouts, suggestTimerRef)
         /\ UNCHANGED suggestion

\* a change that asks for a suggestion
Asks(v) == Len(trim(v)) >= MinSuggestLen /\ autoCorrectOn

lastOf(q, n) == IF Len(q) > n THEN SubSeq(q, Len(q) - n + 1, Len(q)) ELSE q

\* onChange of the textarea (line 326); it fires when the value changes
TextChange(v) ==
  /\ v # question
  /\ question' = v
  /\ IF Len(trim(v)) >= MinSuggestLen
       THEN requestAutocorrect(trim(v))
       ELSE /\ suggestion' = <<>>
            /\ UNCHANGED <<suggestTimerRef, timeouts>>
  /\ burst' = IF Asks(v) THEN lastOf(Append(burst, trim(v)), MaxBurst) ELSE <<>>
  /\ suggestedFor' = IF suggestion' = <<>> THEN <<>> ELSE suggestedFor
  /\ submitted' = FALSE
  /\ UNCHANGED <<sessions, currentId, runVars, autoCorrectOn, suggestLoading, ac,
                 fetches, refVars, uidCounter, cut>>
  /\ Quiet

\* the timeout callback up to its first await: setSuggestLoading(true); fetch(...)
DebounceFire(t) ==
  /\ t \in timeouts
  /\ Len(fetches) < MaxFetches
  /\ timeouts' = timeouts \ {t}
  /\ suggestLoading' = TRUE
  /\ fetches' = Append(fetches, t.text)
  /\ burst' = <<>>
  /\ UNCHANGED <<sessions, currentId, question, runVars, autoCorrectOn, suggestion,
                 ac, suggestTimerRef, refVars, uidCounter, cut, suggestedFor,
                 submitted>>
  /\ Quiet

dropAt(q, i) == SubSeq(q, 1, i - 1) \o SubSeq(q, i + 1, Len(q))

\* lines 152-154: what a response sets the suggestion to
suggestionFrom(text, body) ==
  LET sugg == jsTrim(body)
  IN  IF sugg # <<>> /\ sugg # jsTrim(text) THEN sugg ELSE <<>>

\* the response of request i arrives: j.suggestion is body
SuggestResponse(i, body) ==
  /\ i \in 1..Len(fetches)
  /\ suggestion' = suggestionFrom(fetches[i], body)
  /\ suggestLoading' = FALSE
  /\ fetches' = dropAt(fetches, i)
  /\ suggestedFor' = IF suggestion' = <<>> THEN <<>> ELSE fetches[i]
  /\ UNCHANGED <<sessions, currentId, question, runVars, autoCorrectOn, ac,
                 suggestTimerRef, timeouts, refVars, uidCounter, cut, burst,
                 submitted>>
  /\ Quiet

\* fetch or res.json() rejects: catch{ setSuggestion(""); }
SuggestFailure(i) ==
  /\ i \in 1..Len(fetches)
  /\ suggestion' = <<>>
  /\ suggestLoading' = FALSE
  /\ fetches' = dropAt(fetches, i)
  /\ suggestedFor' = <<>>
  /\ UNCHANGED <<sessions, currentId, question, runVars, autoCorrectOn, ac,
                 suggestTimerRef, timeouts, refVars, uidCounter, cut, burst,
                 submitted>>
  /\ Quiet

\* onClick={()=>setAutoCorrectOn(s=>!s)}
ToggleAutocorrect ==
  /\ autoCorrectOn' = ~autoCorrectOn
  /\ UNCHANGED <<sessions, currentId, question, runVars, suggestion, suggestLoading,
                 ac, suggestTimerRef, timeouts, fetches, refVars, uidCounter, histVars>>
  /\ Quiet

\* the "Did you mean" row is shown when a suggestion is there and none is loading
SuggestionShown == suggestion # <<>> /\ ~suggestLoading

\* onClick={()=>setQuestion(suggestion)}
UseSuggestion ==
  /\ SuggestionShown
  /\ question' = suggestion
  /\ submitted' = (submitted /\ question' = question)
  /\ UNCHANGED <<sessions, currentId, runVars, acVars, refVars, uidCounter, cut, burst,
                 suggestedFor>>
  /\ Quiet

\* onClick={()=>setSuggestion("")}
Dismiss ==
  /\ SuggestionShown
  /\ suggestion' = <<>>
  /\ suggestedFor' = <<>>
  /\ UNCHANGED <<sessions, currentId, question, runVars, autoCorrectOn,
                 suggestLoading, ac, suggestTimerRef, timeouts, fetches, refVars,
                 uidCounter, cut, burst, submitted>>
  /\ Quiet

\* AutoCorrectPill renders when corrected is set and differs from original
PillShown == ac # <<>> /\ ac[1].corrected # <<>> /\ ac[1].corrected # ac[1].original

\* onUseOriginal={() => { setQuestion(ac.original); setAc(null); }}
UseOriginal ==
  /\ PillShown
  /\ question' = ac[1].original
  /\ ac' = <<>>
  /\ submitted' = (submitted /\ question' = question)
  /\ UNCHANGED <<sessions, currentId, runVars, autoCorrectOn, suggestion,
                 suggestLoading, suggestTimerRef, timeouts, fetches, refVars,
                 uidCounter, cut, burst, suggestedFor>>
  /\ Quiet

\* onKeep={() => setAc(null)}
Keep ==
  /\ PillShown
  /\ ac' = <<>>
  /\ UNCHANGED <<sessions, currentId, question, runVars, autoCorrectOn, suggestion,
                 suggestLoading, suggestTimerRef, timeouts, fetches, refVars,
                 uidCounter, histVars>>
  /\ Quiet

\* ------------------------------------------------------------------- store
\* prev.map(s=>s.id===id?{...s,title: titleOf(name)}:s)
retitled(ss, id, name) ==
  [i \in 1..Len(ss) |->
     IF ss[i].id = id THEN [ss[i] EXCEPT !.title = titleOf(name)] ELSE ss[i]]

\* const renameSession=(id,name)=> ... (onBlur or Enter of the rename input)
RenameSession(i, name) ==
  /\ i \in 1..Len(sessions)
  /\ sessions' = retitled(sessions, sessions[i].id, name)
  /\ UNCHANGED <<currentId, question, runVars, acVars, refVars, uidCounter, histVars>>
  /\ Saves

\* prev.map(s=>s.id===currentId?{...s,mode}:s)
withMode(ss, id, m) ==
  [i \in 1..Len(ss) |-> IF ss[i].id = id THEN [ss[i] EXCEPT !.mode = m] ELSE ss[i]]

\* onClick={()=>setMode(m)} and the effect of line 109, which runs when the
\* mode state has changed and a session is selected
SetMode(m) ==
  /\ mode' = m
  /\ IF m # mode /\ currentId # 0
       THEN /\ sessions' = withMode(sessions, currentId, m)
            /\ stored' = saveSessions(sessions', storageFull, stored)
       ELSE UNCHANGED <<sessions, stored>>
  /\ UNCHANGED <<currentId, question, runVars, acVars, refVars, uidCounter, histVars,
                 storageFull, phase>>

\* The first render of App and its effects: useState(loadSessions()),
\* useState(sessions[0]?.id || null), useState(current?.mode || "thorough"),
\* then saveSessions(sessions).  When the loaded value is not an array the
\* render throws (sessions[0] of null, sessions.find is not a function).
Mount ==
  /\ phase = "unmounted"
  /\ LET n == loadSessions(stored)
     IN  IF n.t = "array"
           THEN /\ sessions' = listOf(n)
                /\ currentId' = IF Len(n.v) > 0 THEN listOf(n)[1].id ELSE 0
                /\ mode' = IF Len(n.v) > 0 THEN listOf(n)[1].mode ELSE "thorough"
                /\ stored' = saveSessions(sessions', storageFull, stored)
                /\ phase' = "running"
           ELSE /\ phase' = "crashed"
                /\ UNCHANGED <<sessions, currentId, mode, stored>>
  /\ UNCHANGED <<question, runVars, acVars, refVars, uidCounter, histVars, storageFull>>

\* the quota of localStorage is reached, or room is made
StorageFills ==
  /\ ~storageFull
  /\ storageFull' = TRUE
  /\ UNCHANGED <<sessions, currentId, question, runVars, acVars, refVars, uidCounter,
                 histVars, mode, stored, phase>>

StorageFrees ==
  /\ storageFull
  /\ storageFull' = FALSE
  /\ UNCHANGED <<sessions, currentId, question, runVars, acVars, refVars, uidCounter,
                 histVars, mode, stored, phase>>

\* ---------------------------------------------------------- specifications
StreamEvent ==
  \E k \in 1..Len(streams) :
    \/ \E d \in PlanPayloads : PlanEvent(k, d)
    \/ \E d \in ProgressPayloads : ProgressEvent(k, d)
    \/ \E d \in StatusPayloads : StatusEvent(k, d)
    \/ \E kind \in SentKinds : TraceEvent(k, kind)
    \/ \E d \in FinalPayloads : FinalEvent(k, d)
    \/ ErrorEvent(k)

\* Runs and sessions: the user types a query, sends, stops, switches, deletes;
\* the stream delivers its events; timers fire.  The debounce timeout that a
\* text change sets is pending throughout: these are the behaviours in which
\* the user acts within its 300ms.
Next ==
  \/ \E v \in Queries : TextChange(v)
  \/ Send
  \/ StreamEvent
  \/ ProgressReset
  \/ Tick
  \/ StopClick
  \/ EscapeKey
  \/ NewChat
  \/ \E i \in 1..Len(sessions) : SelectSession(i)
  \/ \E i \in 1..Len(sessions) : DeleteSession(i)

Spec == Init /\ [][Next]_vars

\* The composer: typing, the debounced suggestion request and its response,
\* the suggestion row, the applied-correction pill, and send.  The streams
\* that send opens deliver nothing within it, and every query is sent to the
\* session the first one made.
NextAc ==
  \/ \E v \in Typed : TextChange(v)
  \/ \E t \in timeouts : DebounceFire(t)
  \/ \E i \in 1..Len(fetches), body \in ServerSuggestions : SuggestResponse(i, body)
  \/ \E i \in 1..Len(fetches) : SuggestFailure(i)
  \/ ToggleAutocorrect
  \/ UseSuggestion
  \/ Dismiss
  \/ UseOriginal
  \/ Keep
  \/ Send

SpecAc == Init /\ [][NextAc]_vars

\* The store: the application is opened on whatever the store holds, then
\* sessions are created, renamed, switched between modes and deleted, runs
\* append to them, and saves succeed or fail.
InitStore ==
  /\ sessions = <<>>
  /\ currentId = 0
  /\ question = <<>>
  /\ status = "idle"
  /\ elapsed = 0
  /\ plan = EmptyPlan
  /\ progress = 0
  /\ statusLine = ""
  /\ autoCorrectOn = TRUE
  /\ suggestion = <<>>
  /\ suggestLoading = FALSE
  /\ ac = <<>>
  /\ suggestTimerRef = 0
  /\ timeouts = {}
  /\ fetches = <<>>
  /\ esRef = 0
  /\ runIdRef = 0
  /\ timerRef = 0
  /\ streams = <<>>
  /\ intervals = {}
  /\ sinceT0 = 0
  /\ resets = 0
  /\ uidCounter = 0
  /\ mode = "thorough"
  /\ stored \in StoredRecords
  /\ storageFull = FALSE
  /\ phase = "unmounted"
  /\ cut = {}
  /\ burst = <<>>
  /\ suggestedFor = <<>>
  /\ submitted = FALSE

Running == phase = "running"

NextStore ==
  \/ Mount
  \/ StorageFills
  \/ StorageFrees
  \/ Running /\ \E v \in Queries : TextChange(v)
  \/ Running /\ Len(streams) < MaxStoreRuns /\ Send
  \/ Running /\ \E k \in 1..Len(streams) : TraceEvent(k, "queries")
  \/ Running /\ \E k \in 1..Len(streams) : \E d \in FinalsStored : FinalEvent(k, d)
  \/ Running /\ \E i \in 1..Len(sessions) : \E name \in Names : RenameSession(i, name)
  \/ Running /\ \E m \in Modes : SetMode(m)
  \/ Running /\ \E i \in 1..Len(sessions) : DeleteSession(i)

SpecStore == InitStore /\ [][NextStore]_vars

\* Titles: a session is created by the first send of a text and renamed.
NextTitle ==
  \/ \E v \in TitleTexts : TextChange(v)
  \/ Len(streams) < MaxStoreRuns /\ Send
  \/ \E i \in 1..Len(sessions) : \E name \in TitleTexts : RenameSession(i, name)

SpecTitle == Init /\ [][NextTitle]_vars

\* The loader of one run: the stream sends plans, percentages and the final
\* answer, well formed or not.
NextLoader ==
  \/ Running /\ \E v \in Queries : TextChange(v)
  \/ Running /\ Len(streams) < MaxStoreRuns /\ Send
  \/ Running /\ \E k \in 1..Len(streams) : \E d \in LoaderPlans : PlanEvent(k, d)
  \/ Running /\ \E k \in 1..Len(streams) : \E d \in LoaderPcts : ProgressEvent(k, d)
  \/ Running /\ \E k \in 1..Len(streams) : \E d \in StatusPayloads : StatusEvent(k, d)
  \/ Running /\ \E k \in 1..Len(streams) : \E d \in FinalPayloads : FinalEvent(k, d)
  \/ Running /\ \E k \in 1..Len(streams) : \E kind \in EventKinds : \E m \in Malformed :
                  MalformedEvent(k, kind, m)
  \/ Running /\ ProgressReset

SpecLoader == Init /\ [][NextLoader]_vars

\* Messages: turns are begun, answered, failed and stopped while sessions are
\* selected, renamed, switched between modes and deleted.
NextMessages ==
  \/ \E v \in Queries : TextChange(v)
  \/ Send
  \/ \E k \in 1..Len(streams) : \E d \in FinalPayloads : FinalEvent(k, d)
  \/ \E k \in 1..Len(streams) : ErrorEvent(k)
  \/ StopClick
  \/ NewChat
  \/ \E i \in 1..Len(sessions) : SelectSession(i)
  \/ \E i \in 1..Len(sessions) : DeleteSession(i)
  \/ \E i \in 1..Len(sessions) : \E name \in Names : RenameSession(i, name)
  \/ \E m \in Modes : SetMode(m)

SpecMessages == Init /\ [][NextMessages]_vars

\* ------------------------------------------------------------------ claims
OpenStreams == { k \in 1..Len(streams) : streams[k].open }

\* stream k delivers an event in this step
Delivers(k) == streams'[k].sent = streams[k].sent + 1

\* C1: once send has replaced a run that was thinking, the stream of the
\* replaced run is closed and none of its events is delivered any more, so
\* no such event changes the new run's status, plan, progress, status line
\* or ticker, nor the messages or trace of the new run's session; every
\* event that is delivered comes from the stream esRef holds and is owned by
\* the session runIdRef stamps.
C1_StaleEventsIgnored ==
  [][ /\ \A k \in cut : ~streams[k].open /\ ~Delivers(k)
      /\ \A k \in 1..Len(streams) :
           Delivers(k) => k = esRef /\ streams[k].id = runIdRef ]_vars

\* a run replaced while thinking with events left to deliver, and the run
\* that replaced it receiving its own
C1_Witness ==
  \E k \in cut :
    /\ streams[k].sent < MaxEvents
    /\ esRef \in OpenStreams \ {k}
    /\ streams[esRef].sent > 0
    /\ status = "thinking"

\* C2: at most one stream is open and at most one elapsed-time interval is
\* running, in every reachable state.
C2_OneStreamOneTicker ==
  /\ Cardinality(OpenStreams) <= 1
  /\ Cardinality(intervals) <= 1

\* the second run started while the first was thinking: one stream, one ticker
C2_Witness ==
  /\ cut # {}
  /\ Len(streams) = 2
  /\ OpenStreams = {2}
  /\ Cardinality(intervals) = 1

\* the session with this id gets one more trace entry or one more message
\* and every other session stays as it is
AppendedTo(id) ==
  /\ \E i \in 1..Len(sessions) :
       /\ sessions[i].id = id
       /\ Len(sessions') = Len(sessions)
       /\ sessions'[i].id = id
       /\ \/ /\ Len(sessions'[i].trace) = Len(sessions[i].trace) + 1
             /\ sessions'[i].messages = sessions[i].messages
          \/ /\ Len(sessions'[i].messages) = Len(sessions[i].messages) + 1
             /\ sessions'[i].trace = sessions[i].trace
  /\ \A i \in 1..Len(sessions) :
       sessions[i].id # id => i <= Len(sessions') /\ sessions'[i] = sessions[i]

\* stream k delivers an event whose listener records a trace entry or a message
Records(k) ==
  \/ \E d \in PlanPayloads : PlanEvent(k, d)
  \/ \E d \in StatusPayloads : StatusEvent(k, d)
  \/ \E kind \in TraceKinds : TraceEvent(k, kind)
  \/ \E d \in FinalPayloads : FinalEvent(k, d)
  \/ ErrorEvent(k)

\* C3: every trace entry and assistant message of a run's stream, and the
\* stop entry of the run, is appended to the session resolved when the run
\* started, and no other session changes.
C3_AppendsToOwner ==
  [][ /\ \A k \in 1..Len(streams) : Records(k) => AppendedTo(streams[k].id)
      /\ (status = "thinking" /\ stopRun) => AppendedTo(runIdRef) ]_vars

\* the "Stopped by user" entries of the session list, by session id and place
StopEntries(ss) ==
  { <<ss[i].id, j>> : i \in 1..Len(ss), j \in 1..MaxRuns * (MaxEvents + 1) } \cap
  UNION { { <<ss[i].id, j>> : j \in { n \in 1..Len(ss[i].trace) : ss[i].trace[n] = StopEntry } }
          : i \in 1..Len(ss) }

\* C4: a stop asked for when no run is thinking (the Escape key; the Stop
\* button is then not rendered) changes no state; whatever the step, status
\* does not become stopped and no "Stopped by user" entry is added while
\* status is idle, done, error or stopped.
C4_StopIdempotent ==
  [][ status # "thinking" =>
        /\ (StopClick \/ EscapeKey) => UNCHANGED vars
        /\ status' = "stopped" => status = "stopped"
        /\ StopEntries(sessions') \subseteq StopEntries(sessions) ]_vars

\* a stopped run whose session holds the one stop entry: stop is asked again
C4_Witness ==
  /\ status = "stopped"
  /\ esRef = 0
  /\ Cardinality(StopEntries(sessions)) = 1
  /\ \E e \in StopEntries(sessions) : e[1] = runIdRef

\* the session with this id has entry ev added at the end of its trace
TraceGrowsBy(id, ev) ==
  \E i \in 1..Len(sessions) :
    /\ sessions[i].id = id
    /\ i <= Len(sessions')
    /\ sessions'[i].id = id
    /\ sessions'[i].trace = Append(sessions[i].trace, ev)

\* C5: Escape or Stop while status is thinking sets status to stopped,
\* closes the stream, stops the ticker and appends one "Stopped by user"
\* status entry to the owning session; a closed stream delivers nothing more.
C5_StopWhileThinking ==
  [][ /\ (status = "thinking" /\ (StopClick \/ EscapeKey)) =>
           /\ status' = "stopped"
           /\ OpenStreams' = {}
           /\ intervals' = {}
           /\ TraceGrowsBy(runIdRef, StopEntry)
      /\ \A k \in 1..Len(streams) : ~streams[k].open => streams'[k] = streams[k] ]_vars

\* the session with this id has one assistant message added at the end of
\* its messages, with the answer and citations of payload d
AnswerAdded(id, d) ==
  \E i \in 1..Len(sessions) :
    /\ sessions[i].id = id
    /\ i <= Len(sessions')
    /\ sessions'[i].id = id
    /\ Len(sessions'[i].messages) = Len(sessions[i].messages) + 1
    /\ SubSeq(sessions'[i].messages, 1, Len(sessions[i].messages)) = sessions[i].messages
    /\ LET m == sessions'[i].messages[Len(sessions'[i].messages)]
       IN  /\ m.role = "assistant"
           /\ m.content = d.answer
           /\ m.citations = d.citations

\* C6: a final event of the run appends exactly one assistant message with
\* the answer and the citations to the end of the owning session's messages,
\* sets status to done and progress to 100, stops the ticker, closes the
\* stream and schedules the reset of progress to 0, which the timeout makes.
C6_FinalCompletes ==
  [][ /\ \A k \in 1..Len(streams) : \A d \in FinalPayloads :
           FinalEvent(k, d) =>
             /\ AnswerAdded(streams[k].id, d)
             /\ status' = "done"
             /\ progress' = 100
             /\ intervals' = {}
             /\ ~streams'[k].open
             /\ resets' = resets + 1
      /\ ProgressReset => progress' = 0 ]_vars

\* C7: a transport error of the run appends one error entry to the owning
\* session's trace, sets status to error, stops the ticker and closes the
\* stream, and leaves every session's messages as they are.
C7_ErrorEnds ==
  [][ \A k \in 1..Len(streams) :
        ErrorEvent(k) =>
          /\ TraceGrowsBy(streams[k].id, ErrorEntry)
          /\ status' = "error"
          /\ intervals' = {}
          /\ ~streams'[k].open
          /\ \A i \in 1..Len(sessions) : sessions'[i].messages = sessions[i].messages ]_vars

\* the last message of the session with this id
LastMessage(ss, id) ==
  LET m == SessionOf(ss, id).messages IN m[Len(m)]

\* C8: a send of a non-empty trimmed text R, with autocorrect on and a
\* suggestion S # R shown, appends a user message with content S, leaves the
\* applied-correction record {original: R, corrected: S} and no suggestion;
\* any other send of a non-empty R appends a user message with content R,
\* leaves no applied-correction record and no suggestion.
C8_CorrectionApplied ==
  [][ (trim(question) # <<>> /\ Send) =>
        LET R == trim(question)
            S == suggestion
            use == autoCorrectOn /\ S # <<>> /\ S # R
        IN  /\ currentId' \in Ids(sessions')
            /\ Len(SessionOf(sessions', currentId').messages) > 0
            /\ LastMessage(sessions', currentId').role = "user"
            /\ LastMessage(sessions', currentId').content = IF use THEN S ELSE R
            /\ ac' = IF use THEN <<[original |-> R, corrected |-> S]>> ELSE <<>>
            /\ suggestion' = <<>> ]_vars

\* just after a send that applied a suggestion
C8_Witness ==
  /\ status = "thinking"
  /\ ac # <<>>
  /\ ac[1].corrected # ac[1].original
  /\ currentId \in Ids(sessions)
  /\ LastMessage(sessions, currentId).content = ac[1].corrected
  /\ suggestion = <<>>
  /\ question = <<>>

\* C9: send replaces the query by the suggestion only when the suggestion
\* answers a request made for exactly the text being sent.
C9_SuggestionForThisText ==
  [][ (trim(question) # <<>> /\ Send /\ ac' # <<>>) =>
        suggestedFor = trim(question) ]_vars

\* C10: text changes that each ask for a suggestion, with no request issued
\* between them, leave exactly one debounce timeout pending, which carries
\* the (trimmed) text of the last of them; when it fires, one request is
\* issued, with that text, and no timeout is left to issue another.
C10_Debounce ==
  [][ /\ burst' # <<>> =>
           \E t \in timeouts' : timeouts' = {t} /\ t.text = burst'[Len(burst')]
      /\ (Len(fetches') > Len(fetches) /\ burst # <<>>) =>
           /\ fetches' = Append(fetches, burst[Len(burst)])
           /\ timeouts' = {} ]_vars

\* two changes with different texts in one burst, one timeout pending
C10_Witness ==
  /\ Len(burst) >= 2
  /\ burst[Len(burst)] # burst[Len(burst) - 1]
  /\ Cardinality(timeouts) = 1
  /\ \E t \in timeouts : t.text = burst[Len(burst)] /\ t.text = trim(question)

\* C11: a text change to a value whose trimmed length is under 3, or one made
\* while autocorrect is off, leaves no suggestion and no debounce timeout
\* pending, so that no request is issued afterwards for the earlier text.
C11_ShortTextCancels ==
  [][ \A v \in Typed :
        (TextChange(v) /\ (Len(trim(v)) < MinSuggestLen \/ ~autoCorrectOn)) =>
          /\ suggestion' = <<>>
          /\ timeouts' = {} ]_vars

\* request i has been superseded: a later request is in flight, or a later
\* text change has set the debounce timeout again
Superseded(i) == i < Len(fetches) \/ timeouts # {}

\* C12: the response of a request that a later request or a later text change
\* has superseded does not change the shown suggestion, in whatever order the
\* responses arrive.
C12_OnlyLatestResponse ==
  [][ \A i \in 1..Len(fetches) : \A body \in ServerSuggestions :
        (SuggestResponse(i, body) /\ Superseded(i)) => suggestion' = suggestion ]_vars

\* C14: deleting a session removes it and keeps the others in their order;
\* when it was the selected one the selection becomes a session that is left,
\* or none when none is left; otherwise the selection is unchanged.
C14_DeleteSelection ==
  [][ \A i \in 1..Len(sessions) :
        DeleteSession(i) =>
          LET id == sessions[i].id
          IN  /\ Ids(sessions') = Ids(sessions) \ {id}
              /\ sessions' = SubSeq(sessions, 1, i - 1) \o SubSeq(sessions, i + 1, Len(sessions))
              /\ IF currentId = id
                   THEN IF Ids(sessions) = {id} THEN currentId' = 0
                                                ELSE currentId' \in Ids(sessions')
                   ELSE currentId' = currentId ]_vars

\* two sessions were made, one was deleted, the one left is selected
C14_Witness ==
  /\ Len(streams) = 2
  /\ streams[1].id # streams[2].id
  /\ Len(sessions) = 1
  /\ currentId = sessions[1].id

Terminal == { "done", "error", "stopped" }

\* C19: status becomes done, error or stopped only from thinking, by a final
\* event, a transport error and a stop respectively; it leaves thinking only
\* in one of these three ways; a start with a non-empty query in a terminal
\* state leads to thinking.
C19_Lifecycle ==
  [][ /\ (status' = "done" /\ status # "done") =>
           status = "thinking" /\ \E k \in 1..Len(streams) : \E d \in FinalPayloads : FinalEvent(k, d)
      /\ (status' = "error" /\ status # "error") =>
           status = "thinking" /\ \E k \in 1..Len(streams) : ErrorEvent(k)
      /\ (status' = "stopped" /\ status # "stopped") =>
           status = "thinking" /\ (StopClick \/ EscapeKey)
      /\ (status = "thinking" /\ status' # "thinking") => status' \in Terminal
      /\ (status \in Terminal /\ trim(question) # <<>> /\ Send) => status' = "thinking" ]_vars

\* the record is absent, is a text that does not parse, or parses to a value
\* that is not a list
NoList(rec) == rec.kind # "json" \/ rec.json.t # "array"

\* C13: when the persisted record is absent or corrupt, loadSessions returns
\* the empty list and the application starts, with no session and no current
\* session.
C13_LoadNeverFails ==
  [][ (Mount /\ NoList(stored)) =>
        /\ loadSessions(stored) = JArray(<<>>)
        /\ phase' = "running"
        /\ sessions' = <<>>
        /\ currentId' = 0 ]_vars

\* equality of two messages, property by property
sameMessage(a, b) ==
  /\ a.id = b.id
  /\ a.role = b.role
  /\ prop(a, "content") = prop(b, "content")
  /\ prop(a, "citations") = prop(b, "citations")

sameSession(a, b) ==
  /\ a.id = b.id
  /\ a.title = b.title
  /\ a.mode = b.mode
  /\ Len(a.messages) = Len(b.messages)
  /\ \A i \in 1..Len(a.messages) : sameMessage(a.messages[i], b.messages[i])
  /\ a.trace = b.trace

sameList(x, y) ==
  /\ Len(x) = Len(y)
  /\ \A i \in 1..Len(x) : sameSession(x[i], y[i])

\* what opening the application again would load
reload(rec) == listOf(loadSessions(rec))

\* C20: a step that changes the session list while the store takes the save
\* leaves a record that reloads to a list equal to the list in memory; while
\* the store refuses the save, the record stays as it was, the application
\* keeps running and the list in memory keeps the change.
C20_PersistRoundTrip ==
  [][ Running =>
        /\ (sessions' # sessions /\ ~storageFull) =>
             /\ loadSessions(stored').t = "array"
             /\ sameList(reload(stored'), sessions')
        /\ (sessions' # sessions /\ storageFull) =>
             /\ stored' = stored
             /\ phase' = "running"
        /\ \A i \in 1..Len(sessions) : \A name \in Names :
             (RenameSession(i, name) /\ storageFull) =>
               sessions'[i].title = titleOf(name) ]_vars

\* sessions with a renamed title, a changed mode and an answer without
\* citations have been saved: the record reloads to an equal list, which is
\* not the same value, the undefined citations having been left out
C20_Witness ==
  /\ Running
  /\ stored.kind = "json"
  /\ stored.json.t = "array"
  /\ Len(sessions) > 0
  /\ sameList(reload(stored), sessions)
  /\ reload(stored) # sessions
  /\ sessions[1].title = <<"n", " ", "m">>
  /\ sessions[1].mode = "fast"
  /\ Len(sessions[1].trace) > 0

\* t is the title the claim derives from text x
Titled(t, x) ==
  LET c == trim(x)
  IN  IF c = <<>> THEN t = Untitled
      ELSE /\ Len(t) = (IF Len(c) < TitleMax THEN Len(c) ELSE TitleMax)
           /\ \A i \in 1..Len(t) : t[i] = c[i]

\* C15: the title a session is created with and the title a rename gives are
\* the collapsed, trimmed text cut to its first 64 characters, or "Untitled"
\* when that is empty; every title is non-empty, at most 64 characters long
\* and neither begins nor ends with whitespace.
C15_TitleDerivation ==
  [][ /\ \A i \in 1..Len(sessions) : \A name \in TitleTexts :
           RenameSession(i, name) => Titled(sessions'[i].title, name)
      /\ (trim(question) # <<>> /\ ~HasCurrent /\ Send) =>
           Titled(sessions'[1].title, effectiveQuery(trim(question)))
      /\ \A i \in 1..Len(sessions') :
           LET t == sessions'[i].title
           IN  /\ t # <<>>
               /\ Len(t) <= TitleMax
               /\ ~IsSpace(t[1])
               /\ ~IsSpace(t[Len(t)]) ]_vars

\* C16: whatever percentages the progress events carried, the progress of
\* the run is within 0..100 where the loader uses it: the percentage it
\* shows and the value its step-completion computation reads.
C16_ProgressClamped ==
  status = "thinking" =>
    /\ progress \in 0..100
    /\ displayedPct \in 0..100
    /\ stepProgress \in 0..100

C18_MalformedDropped ==
  [][ \A k \in 1..Len(streams) : \A kind \in EventKinds : \A m \in Malformed :
        MalformedEvent(k, kind, m) =>
          /\ UNCHANGED <<sessions, currentId, question, runVars, acVars, esRef,
                         runIdRef, timerRef, intervals, resets, uidCounter,
                         storeVars>>
          /\ streams'[k].open ]_vars

\* session x is session s with one user message of content q added at the
\* end of its messages and with an empty trace
TurnBegun(x, s, q) ==
  /\ x.id = s.id
  /\ Len(x.messages) = Len(s.messages) + 1
  /\ SubSeq(x.messages, 1, Len(s.messages)) = s.messages
  /\ x.messages[Len(x.messages)].role = "user"
  /\ x.messages[Len(x.messages)].content = q
  /\ x.trace = <<>>

\* C21: a send whose trimmed text is not empty appends one user message with
\* the effective query to the selected session, or, when none is selected, to
\* a session it makes at the head of the list, titled from the effective
\* query; it empties that session's trace, leaves every other session as it
\* is, and sets status thinking, elapsed 0, the empty plan, progress 0 and an
\* empty status line.  A send whose trimmed text is empty changes nothing.
C21_StartEffects ==
  [][ Send =>
        LET raw == trim(question)
            q == IF autoCorrectOn /\ suggestion # <<>> /\ suggestion # raw
                   THEN suggestion ELSE raw
        IN  IF raw = <<>>
              THEN UNCHANGED vars
              ELSE /\ status' = "thinking"
                   /\ elapsed' = 0
                   /\ plan' = EmptyPlan
                   /\ progress' = 0
                   /\ statusLine' = ""
                   /\ IF currentId = 0
                        THEN /\ Len(sessions') = Len(sessions) + 1
                             /\ currentId' = sessions'[1].id
                             /\ currentId' \notin Ids(sessions)
                             /\ sessions'[1].title = titleOf(q)
                             /\ TurnBegun(sessions'[1],
                                          [id |-> currentId', messages |-> <<>>], q)
                             /\ \A i \in 1..Len(sessions) : sessions'[i + 1] = sessions[i]
                        ELSE /\ Len(sessions') = Len(sessions)
                             /\ currentId' = currentId
                             /\ currentId \in Ids(sessions)
                             /\ \A i \in 1..Len(sessions) :
                                  IF sessions[i].id = currentId
                                    THEN TurnBegun(sessions'[i], sessions[i], q)
                                    ELSE sessions'[i] = sessions[i] ]_vars

\* the second turn of a session has begun after the first was answered:
\* its trace is empty again and the run state is reset
C21_Witness ==
  /\ status = "thinking"
  /\ progress = 0
  /\ plan = EmptyPlan
  /\ statusLine = ""
  /\ Len(streams) = 2
  /\ streams[1].sent = MaxEvents
  /\ \E i \in 1..Len(sessions) :
       /\ sessions[i].id = currentId
       /\ Len(sessions[i].messages) = 3
       /\ sessions[i].messages[2].role = "assistant"
       /\ sessions[i].messages[3].role = "user"
       /\ sessions[i].trace = <<>>

\* the entries a trace can hold
TraceEntries ==
  { [type |-> "plan", data |-> d] : d \in PlanPayloads } \cup
  { [type |-> "status", data |-> d] : d \in StatusPayloads } \cup
  { [type |-> kind, data |-> TracePayload(kind)] : kind \in TraceKinds } \cup
  { ErrorEntry, StopEntry }

\* this step accepts entry ev for the session with this id: a stream of the
\* session delivers a plan, status, queries, search, read, extract or
\* rationale event or fails, or the run of the session is stopped
Accepts(id, ev) ==
  \/ \E k \in 1..Len(streams) :
       /\ streams[k].id = id
       /\ Delivers(k)
       /\ \/ \E d \in PlanPayloads :
               ev = [type |-> "plan", data |-> d] /\ PlanEvent(k, d)
          \/ \E d \in StatusPayloads :
               ev = [type |-> "status", data |-> d] /\ StatusEvent(k, d)
          \/ \E kind \in TraceKinds :
               ev = [type |-> kind, data |-> TracePayload(kind)] /\ TraceEvent(k, kind)
          \/ ev = ErrorEntry /\ ErrorEvent(k)
  \/ /\ ev = StopEntry
     /\ runIdRef = id
     /\ status = "thinking"
     /\ status' = "stopped"
     /\ StopClick \/ EscapeKey

\* a stream is opened, a stream delivers an event or status changes: no step
\* begins a turn or accepts an entry otherwise
Arrives ==
  \/ Len(streams') # Len(streams)
  \/ status' # status
  \/ \E k \in 1..Len(streams) : Delivers(k)

\* this step begins a turn of the session with this id
BeginsTurn(id) ==
  /\ currentId' = id
  /\ Len(streams') = Len(streams) + 1
  /\ trim(question) # <<>>
  /\ Send

\* C22: for every session that a step keeps, the trace after the step is
\* empty when the step is a send that begins a turn of the session, the
\* trace before with the accepted entry added at its end when the step
\* accepts an entry for the session, and the trace before otherwise: nothing
\* is reordered, removed or deduplicated, and only a send empties a trace.  A
\* queries, search, read, extract or rationale event leaves status, plan,
\* progress, status line and every session's messages as they are.
C22_TraceIsArrivalOrder ==
  [][ /\ \A i \in 1..Len(sessions) : \A j \in 1..Len(sessions') :
           sessions'[j].id = sessions[i].id =>
             LET id == sessions[i].id
                 t == sessions[i].trace
                 u == sessions'[j].trace
             IN  IF ~Arrives THEN u = t
                 ELSE IF BeginsTurn(id) THEN u = <<>>
                 ELSE IF \E ev \in TraceEntries : Accepts(id, ev)
                   THEN \E ev \in TraceEntries : Accepts(id, ev) /\ u = Append(t, ev)
                   ELSE u = t
      /\ \A k \in 1..Len(streams) : \A kind \in TraceKinds :
           (Delivers(k) /\ TraceEvent(k, kind)) =>
             /\ UNCHANGED <<status, plan, progress, statusLine>>
             /\ Len(sessions') = Len(sessions)
             /\ \A i \in 1..Len(sessions) : sessions'[i].messages = sessions[i].messages
             /\ streams[k].id \in Ids(sessions) =>
                  TraceGrowsBy(streams[k].id, [type |-> kind, data |-> TracePayload(kind)])
    ]_vars

\* a trace of two entries in the order they arrived in, which no sorting by
\* type gives, and one of two equal entries
C22_Witness ==
  /\ \E i \in 1..Len(sessions) :
       /\ Len(sessions[i].trace) = 2
       /\ sessions[i].trace[1].type = "read"
       /\ sessions[i].trace[2].type = "queries"
  /\ \E i \in 1..Len(sessions) :
       /\ Len(sessions[i].trace) = 2
       /\ sessions[i].trace[1] = sessions[i].trace[2]

\* C23: for every session that a step keeps, the messages before the step
\* are a prefix of the messages after it; at most one message is added, a
\* user message by a send that begins a turn of the session or an assistant
\* message by a final event of a stream of the session; rename, mode change,
\* stop, transport error, selection and deletion of another session leave
\* the messages as they are.
C23_MessagesOnlyGrow ==
  [][ \A i \in 1..Len(sessions) : \A j \in 1..Len(sessions') :
        sessions'[j].id = sessions[i].id =>
          LET id == sessions[i].id
              m == sessions[i].messages
              n == sessions'[j].messages
          IN  /\ Len(n) >= Len(m)
              /\ SubSeq(n, 1, Len(m)) = m
              /\ Len(n) <= Len(m) + 1
              /\ Len(n) = Len(m) + 1 =>
                   \/ n[Len(n)].role = "user" /\ BeginsTurn(id)
                   \/ /\ n[Len(n)].role = "assistant"
                      /\ \E k \in 1..Len(streams) : \E d \in FinalPayloads :
                           streams[k].id = id /\ FinalEvent(k, d) ]_vars

\* a session with an answered turn has been renamed and switched to the
\* other mode, its run of the second turn stopped, another session deleted
C23_Witness ==
  /\ Len(sessions) = 1
  /\ sessions[1].title = <<"n", " ", "m">>
  /\ sessions[1].mode = "fast"
  /\ Len(sessions[1].messages) = 2
  /\ sessions[1].messages[1].role = "user"
  /\ sessions[1].messages[2].role = "assistant"
  /\ uidCounter > 3
  /\ status = "stopped"

\* the places of the messages of the session list: <<session, message>>
MessagePlaces(ss) ==
  UNION { { <<i, a>> : a \in 1..Len(ss[i].messages) } : i \in 1..Len(ss) }

\* C24: no two sessions have the same id and no two messages, of one session
\* or of two, have the same id; every id in the list was made from a counter
\* value that is passed, so that no id made later is the id of a session or
\* message made before, deleted or not.  Every id here is made within the
\* same millisecond.
C24_IdsDistinct ==
  /\ \A i, j \in 1..Len(sessions) : i # j => sessions[i].id # sessions[j].id
  /\ \A p, r \in MessagePlaces(sessions) :
       p # r => sessions[p[1]].messages[p[2]].id # sessions[r[1]].messages[r[2]].id
  /\ \A i \in 1..Len(sessions) : sessions[i].id \in 1..uidCounter
  /\ \A p \in MessagePlaces(sessions) :
       sessions[p[1]].messages[p[2]].id \in 1..uidCounter

\* two sessions made one after the other, each with a question and its
\* answer: six ids
C24_Witness ==
  /\ Len(sessions) = 2
  /\ Cardinality(MessagePlaces(sessions)) = 4
  /\ uidCounter = 6

\* C25: whenever status is not thinking, no stream is open and no
\* elapsed-time interval is running, after New chat pressed during a
\* thinking run included.
C25_QuietWhenNotThinking ==
  status # "thinking" => OpenStreams = {} /\ intervals = {}

\* C26: while a run is thinking, its progress changes only by a progress
\* event or the final event of its own stream: the reset to 0 that the final
\* event of an earlier run scheduled does not change it.
C26_ResetSparesLaterRun ==
  [][ (status = "thinking" /\ Len(streams') = Len(streams) /\ progress' # progress) =>
        \/ \E d \in ProgressPayloads : ProgressEvent(esRef, d)
        \/ \E d \in FinalPayloads : FinalEvent(esRef, d) ]_vars

\* C27: while the composer text is as the last send left it, no suggestion
\* is shown: what a debounce timeout or a request pending at the send does
\* afterwards sets none.
C27_NoSuggestionAfterSend ==
  submitted => suggestion = <<>>

\* C28: when a final event sets status to done, the session that owns the
\* run is in the list and its last message is the assistant message with the
\* answer of that event, the owning session having been deleted during the
\* run or not.
C28_DoneHasAnswer ==
  [][ \A k \in 1..Len(streams) : \A d \in FinalPayloads :
        (Delivers(k) /\ FinalEvent(k, d)) =>
          /\ status' = "done"
          /\ streams[k].id \in Ids(sessions')
          /\ LastMessage(sessions', streams[k].id).role = "assistant"
          /\ LastMessage(sessions', streams[k].id).content = d.answer ]_vars

=============================================================================
